---- MODULE Spec2Model ----
(***************************************************************************)
(* Verification model of the video streaming dashboard:                    *)
(*   - the FFmpeg process supervisor (server/ffmpeg-manager.ts) together    *)
(*     with the two route modules that drive it, and                        *)
(*   - the client-side VideoSyncManager (client/src/lib/VideoSyncManager).  *)
(* Time is measured in milliseconds and advances in steps of TimeStep; a    *)
(* timer cannot be overrun: time only advances while no pending timer is    *)
(* due.  Playback positions are milliseconds, playback rates are percent.   *)
(***************************************************************************)
EXTENDS Integers, Sequences, FiniteSets, TLC

\* ------------------------------------------------------------------ bounds
\* External stimuli in one run: calls made to the server (startAll, stopAll,
\* restart commands) and events the child processes and the file system
\* produce (exits, stderr chunks, failed spawns, a failed mkdir).
MaxOps == 3
\* Video elements on the page (registered in this order).
MaxVideos == 2
\* Stimuli the page receives in one run: calls of the controller's
\* methods and events of the players themselves.
MaxCalls == 5

\* ------------------------------------------------- supervisor: constants
NUM_STREAMS == 6
delays == <<0, 300, 600, 900, 1200, 1500>>
SettleMs == 500
RestartDelayMs == 3000
RestartSettleMs == 2000
ErrorTextMax == 500
\* `code === null`: the process was terminated by a signal.
NullCode == -1

\* ------------------------------------------- sync controller: constants
SYNC_CHECK_INTERVAL == 2000
MINOR_DRIFT_THRESHOLD == 500
MAJOR_DRIFT_THRESHOLD == 1500
CorrectionWindowMs == 500
SlowRate == 98
FastRate == 102
NormalRate == 100
\* `syncInterval === null`: no poll timer
NoInterval == -1

Elements == 1..MaxVideos
\* Playback positions the players can be at (ms)
Positions == {10000, 10050, 10500, 11000, 12000}

Min(a, b) == IF a < b THEN a ELSE b
Abs(x) == IF x < 0 THEN -x ELSE x

TimeStep == SettleMs
StreamIds == 1..NUM_STREAMS
ExitCodes == {0, 1, NullCode}
\* The streams whose processes produce events: the first and the last one
EventStreams == {1, NUM_STREAMS}
\* The route modules of the repository; one of them is mounted
RouteModules == {"routes.ts", "part_001"}
AgeCap == RestartDelayMs + 2 * SettleMs

\* A chunk of diagnostic output: the words it contains and its length in
\* characters.
Messages ==
    { [words |-> <<"Conversion", "error">>, len |-> 120],
      [words |-> <<"Error", "opening", "input">>, len |-> 620],
      [words |-> <<"ERROR", "fatal">>, len |-> 80],
      [words |-> <<"frame=", "12">>, len |-> 60] }
SpawnErrorText == [words |-> <<"spawn", "ffmpeg", "ENOENT">>, len |-> 19]
Undefined == [words |-> <<>>, len |-> 0]

VARIABLES
    streams,        \* FFmpegStreamManager.streams: id -> StreamProcess
    procs,          \* child processes whose exit/error event is yet to come
    restartTimers,  \* pending setTimeout(..., 3000) of the exit handler
    reqs,           \* asynchronous calls: startAll() and restart commands
    ops,            \* external stimuli so far
    routes,         \* the route module that is mounted
    crashAge,       \* ms since the latest crash exit of a stream that has
                    \* not been marked running since; -1 when there is none
    halted,         \* stopAll() has returned and startAll() has not been
                    \* called since
    elems,          \* the page's HTMLVideoElements: currentTime,
                    \* playbackRate, paused
    videos,         \* VideoSyncManager.videos
    masterIndex,    \* VideoSyncManager.masterIndex (0-based)
    syncInterval,   \* ms until the poll timer fires, NoInterval when null
    resetTimers,    \* pending setTimeout(..., 500) of sync()
    syncStates,     \* the states last passed to onSyncUpdate
    calls,          \* controller calls and player events so far
    faulty,         \* elements whose play() rejects and whose pause() and
                    \* currentTime setter throw
    outcome,        \* how the latest controller call or timer callback
                    \* ended: "quiet", "notified" (onSyncUpdate called) or
                    \* "threw"
    liveIntervals,  \* interval timers created by setInterval and not
                    \* cleared
    config,         \* Dashboard: streamsData.streams.length of the latest
                    \* render, 0 while there is no data
    refs,           \* Dashboard: the stream ids in videoRefsMap
    stale,          \* Dashboard: a render with a new configuration is
                    \* committed and its effects have not run yet
    manager         \* Dashboard: syncManagerRef.current is not null

supVars == <<streams, procs, restartTimers, reqs, ops, crashAge, routes, halted>>
syncVars == <<elems, videos, masterIndex, syncInterval, resetTimers, syncStates, calls,
              faulty, outcome, liveIntervals>>
pageVars == <<config, refs, stale, manager>>
vars == <<supVars, syncVars, pageVars>>

\* ------------------------------------------------ supervisor: helpers

\* message.includes(word)
Includes(msg, word) == \E i \in 1..Len(msg.words) : msg.words[i] = word

\* message.substring(0, n): the text cut to its first n characters
Substring(msg, n) == [msg EXCEPT !.len = Min(@, n)]

\* initializeStreams(): one StreamProcess per id, not running, no process
InitialStream(s) ==
    [id |-> s, delay |-> delays[s], process |-> 0, isRunning |-> FALSE,
     lastError |-> Undefined]

\* Variant: no input offset is ever passed
ItsOffsetArgs_None(st) == <<>>

\* The -itsoffset argument startStream() passes: none when the delay is 0
ItsOffsetArgs(st) == IF st.delay > 0 THEN <<"-itsoffset", st.delay>> ELSE <<>>

\* The input-side time offset a spawned process runs with
InputOffset(args) == IF Len(args) = 2 THEN args[2] ELSE 0

\* Variant: a spawn also forgets the stream's last error
MarkSpawned_ClearsError(st) ==
    [st EXCEPT !.process = @ + 1, !.isRunning = TRUE, !.lastError = Undefined]

\* stream.process = ffmpegProcess; stream.isRunning = true
MarkSpawned(st) == [st EXCEPT !.process = @ + 1, !.isRunning = TRUE]

\* The child process spawn() returns for stream record st
NewProc(st, ok) ==
    [stream |-> st.id, pid |-> st.process + 1, args |-> ItsOffsetArgs(st),
     state |-> IF ok THEN "live" ELSE "failed", signalled |-> FALSE]

\* 'exit' handler, first statement
MarkExited(st) == [st EXCEPT !.isRunning = FALSE]

\* 'exit' handler: is a restart scheduled for this exit code?
ShouldRestart(code) == code # 0 /\ code # NullCode

\* Variant: the respawn is scheduled after twice the cool-down
TimersAfterExit_Late(timers, s, code) ==
    IF ShouldRestart(code)
    THEN Append(timers, [stream |-> s, left |-> 2 * RestartDelayMs])
    ELSE timers

\* 'exit' handler: the timers after an exit of stream s with `code`
TimersAfterExit(timers, s, code) ==
    IF ShouldRestart(code)
    THEN Append(timers, [stream |-> s, left |-> RestartDelayMs])
    ELSE timers

\* Variant: the error is recorded but the stream stays marked running
MarkError_StillRunning(st, text) == [st EXCEPT !.lastError = text]

\* 'error' handler
MarkError(st, text) == [st EXCEPT !.isRunning = FALSE, !.lastError = text]

\* Variant: a reported error also marks the stream down
OnStderr_Fatal(st, msg) ==
    IF Includes(msg, "error") \/ Includes(msg, "Error")
    THEN [st EXCEPT !.lastError = Substring(msg, ErrorTextMax), !.isRunning = FALSE]
    ELSE st

\* stderr 'data' handler
OnStderr(st, msg) ==
    IF Includes(msg, "error") \/ Includes(msg, "Error")
    THEN [st EXCEPT !.lastError = Substring(msg, ErrorTextMax)]
    ELSE st

\* Variant: the process is signalled but the flag is left alone
StopStream_KillOnly(st) == st

\* stopAll(), per stream
StopStream(st) == IF st.process # 0 THEN [st EXCEPT !.isRunning = FALSE] ELSE st

\* stream.process.kill('SIGTERM'): reaches the process only while it lives
Kill(p, st) ==
    IF p.pid = st.process /\ p.state = "live"
    THEN [p EXCEPT !.signalled = TRUE]
    ELSE p

\* getStreamHealth() of the stream table strs
HealthOf(strs) ==
    [s \in StreamIds |->
        [streamId |-> strs[s].id, isLive |-> strs[s].isRunning,
         error |-> strs[s].lastError]]

getStreamHealth == HealthOf(streams)

\* --------------------------------------------------- supervisor: actions

\* startStream(stream), from the spawn on; `ok` is whether the spawn
\* succeeds, `used` the stimuli counted before it
StartStream(s, ok, used) ==
    /\ ok \/ (used < MaxOps /\ s \in EventStreams)
    /\ streams' = [streams EXCEPT ![s] = MarkSpawned(@)]
    /\ procs' = procs \cup {NewProc(streams[s], ok)}
    /\ ops' = IF ok THEN used ELSE used + 1
    /\ crashAge' = [crashAge EXCEPT ![s] = IF streams'[s].isRunning THEN -1 ELSE @]

\* stopAll()
stopAll ==
    /\ streams' = [s \in StreamIds |-> StopStream(streams[s])]
    /\ procs' = {Kill(p, streams[p.stream]) : p \in procs}
    /\ halted' = TRUE

SupInit ==
    /\ streams = [s \in StreamIds |-> InitialStream(s)]
    /\ procs = {}
    /\ restartTimers = <<>>
    /\ reqs = <<>>
    /\ ops = 0
    /\ crashAge = [s \in StreamIds |-> -1]
    /\ halted = FALSE

\* A live process exits: the 'exit' handler runs
ExitEvent(p, code) ==
    /\ p.state = "live"
    /\ p.stream \in EventStreams
    /\ ops < MaxOps
    /\ streams' = [streams EXCEPT ![p.stream] = MarkExited(@)]
    /\ procs' = procs \ {p}
    /\ restartTimers' = TimersAfterExit(restartTimers, p.stream, code)
    /\ ops' = ops + 1
    /\ crashAge' = IF code # 0 /\ code # NullCode
                   THEN [crashAge EXCEPT ![p.stream] = 0]
                   ELSE crashAge
    /\ UNCHANGED <<reqs, routes, halted>>

ProcExit == \E p \in procs, code \in ExitCodes : ExitEvent(p, code)

\* A spawn that failed reports it: the 'error' handler runs
ErrorEvent(p) ==
    /\ p.state = "failed"
    /\ streams' = [streams EXCEPT ![p.stream] = MarkError(@, SpawnErrorText)]
    /\ procs' = procs \ {p}
    /\ UNCHANGED <<restartTimers, reqs, ops, crashAge, routes, halted>>

ProcError == \E p \in procs : ErrorEvent(p)

\* A live process writes a chunk to stderr: the 'data' handler runs
StderrEvent(p, msg) ==
    /\ p.state = "live"
    /\ p.stream \in EventStreams
    /\ ops < MaxOps
    /\ streams' = [streams EXCEPT ![p.stream] = OnStderr(@, msg)]
    /\ ops' = ops + 1
    /\ UNCHANGED <<procs, restartTimers, reqs, crashAge, routes, halted>>

ProcStderr == \E p \in procs, msg \in Messages : StderrEvent(p, msg)

\* The exit handler's setTimeout callback: this.startStream(stream)
RestartTimerFire ==
    /\ restartTimers # <<>>
    /\ Head(restartTimers).left = 0
    /\ \E ok \in BOOLEAN : StartStream(Head(restartTimers).stream, ok, ops)
    /\ restartTimers' = Tail(restartTimers)
    /\ UNCHANGED <<reqs, routes, halted>>

\* A call that has just entered startAll()
EnterStartAll(req) == [req EXCEPT !.pc = "loop", !.log = Append(@, "startAll")]

\* startAll(): stream st has been started, the settle delay begins
AfterSpawn(req, st) ==
    [req EXCEPT !.i = st.id, !.left = SettleMs,
                !.issued = Append(@, [id |-> st.id, args |-> ItsOffsetArgs(st)])]

\* The answer of a call whose startAll() returned
AnswerReturned(req) ==
    [req EXCEPT !.pc = "done", !.log = Append(@, "returned"),
                !.answer = IF req.route = "restart" THEN "200" ELSE "none"]

\* The answer of a call whose startAll() threw (the catch blocks)
AnswerThrew(req) ==
    [req EXCEPT !.pc = "done", !.log = Append(@, "threw"),
                !.answer = IF req.route = "restart" THEN "500" ELSE "none"]

\* reqs with slot k holding req (a new slot when k is past the end)
PutReq(k, req) ==
    IF k > Len(reqs) THEN Append(reqs, req) ELSE [reqs EXCEPT ![k] = req]

\* One turn of startAll()'s loop for the call in slot k of reqs': start the
\* next stream, or fail creating its directory (only possible while the
\* stream was never started), or return after the last stream.
StartAllTurn(req, k, used) ==
    IF req.i < NUM_STREAMS
    THEN \/ /\ \E ok \in BOOLEAN : StartStream(req.i + 1, ok, used)
            /\ reqs' = PutReq(k, AfterSpawn(req, streams[req.i + 1]))
         \/ /\ streams[req.i + 1].process = 0
            /\ req.i + 1 \in EventStreams
            /\ used < MaxOps
            /\ ops' = used + 1
            /\ reqs' = PutReq(k, AnswerThrew(req))
            /\ UNCHANGED <<streams, procs, crashAge>>
    ELSE /\ reqs' = PutReq(k, AnswerReturned(req))
         /\ ops' = used
         /\ UNCHANGED <<streams, procs, crashAge>>

\* A new call is made while at most one earlier call is still in progress
MayCall == Cardinality({k \in 1..Len(reqs) : reqs[k].pc # "done"}) <= 1

NewReq(route) ==
    [route |-> route, pc |-> "settle", i |-> 0, left |-> 0, issued |-> <<>>,
     log |-> <<>>, answer |-> "none"]

\* The server's start-up call of startAll(), made once
StartAllCall ==
    /\ routes = "part_001"
    /\ ops < MaxOps
    /\ MayCall
    /\ \A k \in 1..Len(reqs) : reqs[k].route # "startAll"
    /\ StartAllTurn(EnterStartAll(NewReq("startAll")), Len(reqs) + 1, ops + 1)
    /\ halted' = FALSE
    /\ UNCHANGED <<restartTimers, routes>>

\* A direct call of stopAll() (cleanup())
StopAllCall ==
    /\ routes = "part_001"
    /\ ops < MaxOps
    /\ stopAll
    /\ ops' = ops + 1
    /\ UNCHANGED <<restartTimers, reqs, crashAge, routes>>

\* POST /api/streams/restart of the supervisor-backed routes: stopAll(),
\* then the 2 s timer is set
RestartCmd ==
    /\ routes = "part_001"
    /\ ops < MaxOps
    /\ MayCall
    /\ stopAll
    /\ reqs' = Append(reqs, [NewReq("restart") EXCEPT
                                !.left = RestartSettleMs,
                                !.log = <<"stopAll">>])
    /\ ops' = ops + 1
    /\ UNCHANGED <<restartTimers, crashAge, routes>>

\* POST /api/streams/restart of server/routes.ts: answers at once
RestartStub ==
    /\ routes = "routes.ts"
    /\ ops < MaxOps
    /\ reqs' = Append(reqs, [NewReq("restart") EXCEPT
                                !.pc = "done", !.answer = "200"])
    /\ ops' = ops + 1
    /\ UNCHANGED <<streams, procs, restartTimers, crashAge, routes, halted>>

\* The restart command's 2 s timer fires: startAll() is entered
RestartSettled ==
    \E k \in 1..Len(reqs) :
        /\ reqs[k].pc = "settle"
        /\ reqs[k].left = 0
        /\ StartAllTurn(EnterStartAll([reqs[k] EXCEPT !.log = Append(@, "settled")]),
                        k, ops)
        /\ halted' = FALSE
        /\ UNCHANGED <<restartTimers, routes>>

\* startAll()'s 500 ms timer fires: the loop goes on
StartAllResume ==
    \E k \in 1..Len(reqs) :
        /\ reqs[k].pc = "loop"
        /\ reqs[k].left = 0
        /\ StartAllTurn(reqs[k], k, ops)
        /\ UNCHANGED <<restartTimers, routes, halted>>

Waiting(req) == req.pc # "done"

\* Time advances by TimeStep while no pending timer is due
Tick ==
    /\ \A k \in 1..Len(restartTimers) : restartTimers[k].left > 0
    /\ \A k \in 1..Len(reqs) : Waiting(reqs[k]) => reqs[k].left > 0
    /\ \/ restartTimers # <<>>
       \/ \E k \in 1..Len(reqs) : Waiting(reqs[k])
       \/ \E s \in StreamIds : crashAge[s] >= 0 /\ crashAge[s] < AgeCap
    /\ restartTimers' = [k \in 1..Len(restartTimers) |->
                            [restartTimers[k] EXCEPT !.left = @ - TimeStep]]
    /\ reqs' = [k \in 1..Len(reqs) |->
                    IF Waiting(reqs[k])
                    THEN [reqs[k] EXCEPT !.left = @ - TimeStep]
                    ELSE reqs[k]]
    /\ crashAge' = [s \in StreamIds |->
                        IF crashAge[s] >= 0
                        THEN Min(crashAge[s] + TimeStep, AgeCap)
                        ELSE crashAge[s]]
    /\ UNCHANGED <<streams, procs, ops, routes, halted>>

\* ---------------------------------------------- sync controller: helpers

\* Variant: the first slot is the master whatever masterIndex says
MasterSlot_First == IF Len(videos) > 0 THEN 1 ELSE 0

\* this.videos[this.masterIndex], as a 1-based index; 0 when undefined
MasterSlot == IF masterIndex >= 0 /\ masterIndex < Len(videos) THEN masterIndex + 1 ELSE 0

\* sync() and forceSync() return early without a video or without a master
CanSync == Len(videos) # 0 /\ MasterSlot # 0

\* video.currentTime - masterTime for slot i, over the element table els
DriftOf(els, i) == els[videos[i].video].currentTime - els[videos[MasterSlot].video].currentTime

\* Variant: no minor-drift branch
Classify_NoNudge(drift) ==
    IF Abs(drift) > MAJOR_DRIFT_THRESHOLD THEN "seek" ELSE "insync"

\* Variant: the thresholds themselves count as exceeded
Classify_NonStrict(drift) ==
    IF Abs(drift) >= MAJOR_DRIFT_THRESHOLD THEN "seek"
    ELSE IF Abs(drift) >= MINOR_DRIFT_THRESHOLD THEN "nudge"
    ELSE "insync"

\* The branch sync() takes for a drift
Classify(drift) ==
    IF Abs(drift) > MAJOR_DRIFT_THRESHOLD THEN "seek"
    ELSE IF Abs(drift) > MINOR_DRIFT_THRESHOLD THEN "nudge"
    ELSE "insync"

\* Variant: the two rates swapped
NudgedRate_Swapped(drift) == IF drift > 0 THEN FastRate ELSE SlowRate

\* The rate of the minor-drift branch
NudgedRate(drift) == IF drift > 0 THEN SlowRate ELSE FastRate

\* The branch of slot i
BranchOf(els, i) == IF i = MasterSlot THEN "master" ELSE Classify(DriftOf(els, i))

\* Variant: the major-drift branch does not seek
Corrected_NoSeek(el, branch, drift, masterTime) ==
    CASE branch = "nudge" -> [el EXCEPT !.playbackRate = NudgedRate(drift)]
      [] branch = "insync" -> [el EXCEPT !.playbackRate = NormalRate]
      [] OTHER -> el

\* Variant: the major-drift branch also pauses the element
Corrected_PausingSeek(el, branch, drift, masterTime) ==
    CASE branch = "seek" -> [el EXCEPT !.currentTime = masterTime, !.paused = TRUE]
      [] branch = "nudge" -> [el EXCEPT !.playbackRate = NudgedRate(drift)]
      [] branch = "insync" -> [el EXCEPT !.playbackRate = NormalRate]
      [] OTHER -> el

\* What sync() does to the element el of a slot, by branch
Corrected(el, branch, drift, masterTime) ==
    CASE branch = "seek" -> [el EXCEPT !.currentTime = masterTime]
      [] branch = "nudge" -> [el EXCEPT !.playbackRate = NudgedRate(drift)]
      [] branch = "insync" -> [el EXCEPT !.playbackRate = NormalRate]
      [] OTHER -> el

\* The slots an element is registered in
SlotsOf(e) == {i \in 1..Len(videos) : videos[i].video = e}

\* The first slot of a set of slots, 0 when there is none: where a forEach
\* stops when the slots of S throw
FirstSlot(S) == IF S = {} THEN 0 ELSE CHOOSE i \in S : \A j \in S : i <= j

\* The slot whose seek throws in a sync() pass over els, 0 when none does
ThrowSlot(els) ==
    FirstSlot({i \in 1..Len(videos) :
                  BranchOf(els, i) = "seek" /\ videos[i].video \in faulty})

\* The slots a sync() pass over els completes
Reached(els, i) == ThrowSlot(els) = 0 \/ i < ThrowSlot(els)

\* The element of slot i after one sync() pass over els
PassElem(els, i) ==
    IF Reached(els, i)
    THEN Corrected(els[videos[i].video], BranchOf(els, i), DriftOf(els, i),
                   els[videos[MasterSlot].video].currentTime)
    ELSE els[videos[i].video]

\* The element table after one sync() pass over els (each element is
\* registered in at most one slot)
PassElems(els) ==
    [e \in Elements |->
        IF SlotsOf(e) = {} THEN els[e]
        ELSE PassElem(els, CHOOSE i \in SlotsOf(e) : TRUE)]

\* Variant: the drift is reported without its sign
PassState_AbsDrift(els, i) ==
    [streamId |-> videos[i].streamId,
     currentTime |-> PassElem(els, i).currentTime,
     drift |-> IF i = MasterSlot THEN 0 ELSE Abs(DriftOf(els, i)),
     isSynced |-> BranchOf(els, i) \in {"master", "insync"}]

\* The SyncState sync() pushes for slot i; currentTime is read after the
\* correction
PassState(els, i) ==
    [streamId |-> videos[i].streamId,
     currentTime |-> PassElem(els, i).currentTime,
     drift |-> IF i = MasterSlot THEN 0 ELSE DriftOf(els, i),
     isSynced |-> BranchOf(els, i) \in {"master", "insync"}]

PassStates(els) == [i \in 1..Len(videos) |-> PassState(els, i)]

\* Variant: the minor-drift branch sets no reset timer
NudgeTimers_None(els, i) == <<>>

\* The reset timers the minor-drift branch sets, in slot order
RECURSIVE NudgeTimers(_, _)
NudgeTimers(els, i) ==
    IF i > Len(videos) THEN <<>>
    ELSE (IF BranchOf(els, i) = "nudge" /\ Reached(els, i)
          THEN <<[video |-> videos[i].video, left |-> CorrectionWindowMs]>>
          ELSE <<>>) \o NudgeTimers(els, i + 1)

\* The slot whose seek throws in forceSync(), 0 when none does
ForceThrowSlot ==
    FirstSlot({i \in 1..Len(videos) : i # MasterSlot /\ videos[i].video \in faulty})

\* Variant: only slots beyond the major threshold are forced
Forced_Thresholded(els) ==
    [e \in Elements |->
        IF \E i \in SlotsOf(e) :
              /\ i # MasterSlot
              /\ ForceThrowSlot = 0 \/ i < ForceThrowSlot
              /\ Abs(DriftOf(els, i)) > MAJOR_DRIFT_THRESHOLD
        THEN [els[e] EXCEPT !.currentTime = els[videos[MasterSlot].video].currentTime,
                            !.playbackRate = NormalRate]
        ELSE els[e]]

\* forceSync(): every slot but the master is set to the master's time and
\* to the normal rate, up to the slot whose seek throws
Forced(els) ==
    [e \in Elements |->
        IF \E i \in SlotsOf(e) :
              i # MasterSlot /\ (ForceThrowSlot = 0 \/ i < ForceThrowSlot)
        THEN [els[e] EXCEPT !.currentTime = els[videos[MasterSlot].video].currentTime,
                            !.playbackRate = NormalRate]
        ELSE els[e]]

\* The slot whose pause() throws in pauseAll(), 0 when none does
PauseThrowSlot == FirstSlot({i \in 1..Len(videos) : videos[i].video \in faulty})

\* pauseAll(): every slot is paused, up to the slot whose pause() throws
Paused(els) ==
    [e \in Elements |->
        IF \E i \in SlotsOf(e) : PauseThrowSlot = 0 \/ i < PauseThrowSlot
        THEN [els[e] EXCEPT !.paused = TRUE]
        ELSE els[e]]

\* Variant: one rejected play() leaves every source as it was
Played_AllOrNothing(els) ==
    IF \E i \in 1..Len(videos) : videos[i].video \in faulty THEN els
    ELSE [e \in Elements |->
            IF SlotsOf(e) # {} THEN [els[e] EXCEPT !.paused = FALSE] ELSE els[e]]

\* playAll(): every slot whose play() does not reject is playing
Played(els) ==
    [e \in Elements |->
        IF SlotsOf(e) # {} /\ e \notin faulty
        THEN [els[e] EXCEPT !.paused = FALSE]
        ELSE els[e]]

\* start(): the handle after the call, and the timers alive after it
StartedInterval(handle) == IF handle # NoInterval THEN handle ELSE SYNC_CHECK_INTERVAL

\* Variant: start() creates a timer whether or not one is running
LiveAfterStart_Unguarded(handle, live) == live + 1

LiveAfterStart(handle, live) == IF handle # NoInterval THEN live ELSE live + 1

\* stop(): the timers alive after clearInterval
LiveAfterStop(handle, live) == IF handle # NoInterval THEN live - 1 ELSE live

\* getSyncStates()
getSyncStates ==
    IF ~CanSync THEN <<>>
    ELSE [i \in 1..Len(videos) |->
            LET drift == IF i = MasterSlot THEN 0 ELSE DriftOf(elems, i) IN
            [streamId |-> videos[i].streamId,
             currentTime |-> elems[videos[i].video].currentTime,
             drift |-> drift,
             isSynced |-> Abs(drift) < MINOR_DRIFT_THRESHOLD]]

\* ---------------------------------------------- sync controller: actions

\* Variant: the states of a pass are added to those of earlier passes
sync_Accumulating(els) ==
    IF CanSync
    THEN /\ elems' = PassElems(els)
         /\ resetTimers' = resetTimers \o NudgeTimers(els, 1)
         /\ IF ThrowSlot(els) = 0
            THEN syncStates' = syncStates \o PassStates(els) /\ outcome' = "notified"
            ELSE UNCHANGED syncStates /\ outcome' = "threw"
    ELSE /\ elems' = els
         /\ outcome' = "quiet"
         /\ UNCHANGED <<resetTimers, syncStates>>

\* sync() over the element table els
sync(els) ==
    IF CanSync
    THEN /\ elems' = PassElems(els)
         /\ resetTimers' = resetTimers \o NudgeTimers(els, 1)
         /\ IF ThrowSlot(els) = 0
            THEN syncStates' = PassStates(els) /\ outcome' = "notified"
            ELSE UNCHANGED syncStates /\ outcome' = "threw"
    ELSE /\ elems' = els
         /\ outcome' = "quiet"
         /\ UNCHANGED <<resetTimers, syncStates>>

\* The first player is at 10.0 s and the others anywhere: only differences
\* of positions matter to the controller
SyncInit ==
    /\ elems \in [Elements -> [currentTime : Positions, playbackRate : {NormalRate},
                               paused : {TRUE}]]
    /\ elems[1].currentTime = 10000
    /\ videos = <<>>
    /\ masterIndex = 0
    /\ syncInterval = NoInterval
    /\ resetTimers = <<>>
    /\ syncStates = <<>>
    /\ calls = 0
    /\ faulty = {}
    /\ outcome = "quiet"
    /\ liveIntervals = 0

\* addVideo(video, streamId): the page registers its elements in order
addVideo ==
    /\ calls < MaxCalls
    /\ calls' = calls + 1
    /\ Len(videos) < MaxVideos
    /\ videos' = Append(videos, [video |-> Len(videos) + 1, streamId |-> Len(videos) + 1])
    /\ outcome' = "quiet"
    /\ UNCHANGED <<elems, masterIndex, syncInterval, resetTimers, syncStates, faulty,
                   liveIntervals>>

\* clearVideos()
clearVideos ==
    /\ calls < MaxCalls
    /\ calls' = calls + 1
    /\ videos' = <<>>
    /\ outcome' = "quiet"
    /\ UNCHANGED <<elems, masterIndex, syncInterval, resetTimers, syncStates, faulty,
                   liveIntervals>>

\* The index setMaster(index) leaves selected
Selected(index, current, count) == IF index >= 0 /\ index < count THEN index ELSE current

\* setMaster(index)
setMaster ==
    /\ calls < MaxCalls
    /\ calls' = calls + 1
    /\ \E index \in -1..MaxVideos :
        /\ masterIndex' = Selected(index, masterIndex, Len(videos))
        /\ outcome' = "quiet"
        /\ UNCHANGED <<elems, videos, syncInterval, resetTimers, syncStates, faulty,
                       liveIntervals>>

\* start()
start ==
    /\ calls < MaxCalls
    /\ calls' = calls + 1
    /\ syncInterval' = StartedInterval(syncInterval)
    /\ liveIntervals' = LiveAfterStart(syncInterval, liveIntervals)
    /\ outcome' = "quiet"
    /\ UNCHANGED <<elems, videos, masterIndex, resetTimers, syncStates, faulty>>

\* stop()
stop ==
    /\ calls < MaxCalls
    /\ calls' = calls + 1
    /\ syncInterval' = NoInterval
    /\ liveIntervals' = LiveAfterStop(syncInterval, liveIntervals)
    /\ outcome' = "quiet"
    /\ UNCHANGED <<elems, videos, masterIndex, resetTimers, syncStates, faulty>>

\* The poll timer fires: sync(), and the interval runs again
IntervalFire ==
    /\ syncInterval = 0
    /\ sync(elems)
    /\ syncInterval' = SYNC_CHECK_INTERVAL
    /\ UNCHANGED <<videos, masterIndex, calls, faulty, liveIntervals>>

\* A reset timer of the minor-drift branch fires
ResetFire ==
    /\ resetTimers # <<>>
    /\ Head(resetTimers).left = 0
    /\ elems' = [elems EXCEPT ![Head(resetTimers).video].playbackRate = NormalRate]
    /\ resetTimers' = Tail(resetTimers)
    /\ outcome' = "quiet"
    /\ UNCHANGED <<videos, masterIndex, syncInterval, syncStates, calls, faulty,
                   liveIntervals>>

\* playAll(): rejections are swallowed and the call resolves
playAll ==
    /\ calls < MaxCalls
    /\ calls' = calls + 1
    /\ elems' = Played(elems)
    /\ outcome' = "quiet"
    /\ UNCHANGED <<videos, masterIndex, syncInterval, resetTimers, syncStates, faulty,
                   liveIntervals>>

\* pauseAll()
pauseAll ==
    /\ calls < MaxCalls
    /\ calls' = calls + 1
    /\ elems' = Paused(elems)
    /\ outcome' = IF PauseThrowSlot = 0 THEN "quiet" ELSE "threw"
    /\ UNCHANGED <<videos, masterIndex, syncInterval, resetTimers, syncStates, faulty,
                   liveIntervals>>

\* forceSync()
forceSync ==
    /\ calls < MaxCalls
    /\ calls' = calls + 1
    /\ IF ~CanSync
       THEN outcome' = "quiet" /\ UNCHANGED <<elems, resetTimers, syncStates>>
       ELSE IF ForceThrowSlot # 0
       THEN /\ elems' = Forced(elems)
            /\ outcome' = "threw"
            /\ UNCHANGED <<resetTimers, syncStates>>
       ELSE LET forced == Forced(elems) IN sync(forced)
    /\ UNCHANGED <<videos, masterIndex, syncInterval, faulty, liveIntervals>>

\* Variant: destroy() stops the timer but keeps the videos
destroy_KeepsVideos ==
    /\ calls < MaxCalls
    /\ calls' = calls + 1
    /\ syncInterval' = NoInterval
    /\ liveIntervals' = LiveAfterStop(syncInterval, liveIntervals)
    /\ outcome' = "quiet"
    /\ UNCHANGED <<elems, videos, masterIndex, resetTimers, syncStates, faulty>>

\* destroy(): stop(), then the videos are dropped
destroy ==
    /\ calls < MaxCalls
    /\ calls' = calls + 1
    /\ syncInterval' = NoInterval
    /\ liveIntervals' = LiveAfterStop(syncInterval, liveIntervals)
    /\ videos' = <<>>
    /\ outcome' = "quiet"
    /\ UNCHANGED <<elems, masterIndex, resetTimers, syncStates, faulty>>

\* A registered player moves its own position (playback, stall, user seek)
PlayerJump ==
    \E e \in Elements, pos \in Positions :
        /\ calls < MaxCalls
        /\ SlotsOf(e) # {}
        /\ pos # elems[e].currentTime
        /\ elems' = [elems EXCEPT ![e].currentTime = pos]
        /\ calls' = calls + 1
        /\ UNCHANGED <<videos, masterIndex, syncInterval, resetTimers, syncStates, faulty,
                       outcome, liveIntervals>>

\* A registered player stops accepting commands: from now on its play()
\* rejects and its pause() and seeks throw
PlayerBreaks ==
    \E e \in Elements \ faulty :
        /\ calls < MaxCalls
        /\ SlotsOf(e) # {}
        /\ calls' = calls + 1
        /\ faulty' = faulty \cup {e}
        /\ UNCHANGED <<elems, videos, masterIndex, syncInterval, resetTimers, syncStates,
                       outcome, liveIntervals>>

\* The time to the next client timer that is due: the shortest of the poll
\* timer's and the reset timers' remaining times
RECURSIVE Soonest(_, _)
Soonest(timers, least) ==
    IF timers = <<>> THEN least
    ELSE Soonest(Tail(timers), Min(least, Head(timers).left))

NextDue ==
    IF syncInterval = NoInterval THEN Soonest(resetTimers, CorrectionWindowMs)
    ELSE Soonest(resetTimers, syncInterval)

\* Time advances to the next due client timer
SyncTick ==
    /\ syncInterval # 0
    /\ \A k \in 1..Len(resetTimers) : resetTimers[k].left > 0
    /\ syncInterval # NoInterval \/ resetTimers # <<>>
    /\ syncInterval' = IF syncInterval = NoInterval THEN NoInterval
                       ELSE syncInterval - NextDue
    /\ resetTimers' = [k \in 1..Len(resetTimers) |->
                          [resetTimers[k] EXCEPT !.left = @ - NextDue]]
    /\ UNCHANGED <<elems, videos, masterIndex, syncStates, calls, faulty, outcome,
                   liveIntervals>>

\* ------------------------------------------------------ the dashboard

\* Dashboard before its first render with data
PageInit ==
    /\ config = 0
    /\ refs = {}
    /\ stale = FALSE
    /\ manager = FALSE

\* videoRefsMap once the VideoPlayer effects of a commit have run: the
\* player of every stream of the configuration has registered its element,
\* the players of removed streams have unregistered theirs
PlayerRefs(n) == 1..n

\* The effect's guard: there is data and the map has as many entries as
\* the configuration has streams
AllRegistered(rs, n) == n > 0 /\ Cardinality(rs) = n

\* Variant: the effect leaves out the last stream
EffectVideos_AllButLast(rs, n) ==
    SelectSeq([i \in 1..(n - 1) |-> [video |-> i, streamId |-> i]],
              LAMBDA v : v.streamId \in rs)

\* The sources the effect registers: for each stream of the configuration,
\* in order, addVideo() when the map has its element
EffectVideos(rs, n) ==
    SelectSeq([i \in 1..n |-> [video |-> i, streamId |-> i]],
              LAMBDA v : v.streamId \in rs)

\* useQuery delivers a configuration with another number of streams and the
\* Dashboard renders it; the effects of that render are still to run
DataArrives ==
    \E n \in 1..MaxVideos :
        /\ ~stale
        /\ calls < MaxCalls
        /\ n # config
        /\ config' = n
        /\ stale' = TRUE
        /\ calls' = calls + 1
        /\ UNCHANGED <<refs, manager, elems, videos, masterIndex, syncInterval,
                       resetTimers, syncStates, faulty, outcome, liveIntervals>>

\* The effects of the committed render run: the VideoPlayer effects, the
\* cleanup of the Dashboard effect (destroy() of the controller it made),
\* then the Dashboard effect itself
RunEffects ==
    /\ stale
    /\ stale' = FALSE
    /\ refs' = PlayerRefs(config)
    /\ LET live == IF manager THEN LiveAfterStop(syncInterval, liveIntervals)
                   ELSE liveIntervals
       IN  IF AllRegistered(refs', config)
           THEN /\ videos' = EffectVideos(refs', config)
                /\ masterIndex' = Selected(0, 0, Len(videos'))
                /\ syncInterval' = StartedInterval(NoInterval)
                /\ liveIntervals' = LiveAfterStart(NoInterval, live)
                /\ manager' = TRUE
           ELSE /\ videos' = IF manager THEN <<>> ELSE videos
                /\ syncInterval' = IF manager THEN NoInterval ELSE syncInterval
                /\ liveIntervals' = live
                /\ manager' = FALSE
                /\ UNCHANGED masterIndex
    /\ outcome' = "quiet"
    /\ UNCHANGED <<config, elems, resetTimers, syncStates, calls, faulty>>

\* The Dashboard unmounts: the players unregister and the effect's cleanup
\* destroys the controller
Unmount ==
    /\ ~stale
    /\ manager
    /\ calls < MaxCalls
    /\ calls' = calls + 1
    /\ config' = 0
    /\ refs' = {}
    /\ manager' = FALSE
    /\ videos' = <<>>
    /\ syncInterval' = NoInterval
    /\ liveIntervals' = LiveAfterStop(syncInterval, liveIntervals)
    /\ outcome' = "quiet"
    /\ UNCHANGED <<stale, elems, masterIndex, resetTimers, syncStates, faulty>>

\* The three buttons: they act only while there is a controller
handlePlayAll == manager /\ playAll

handlePauseAll == manager /\ pauseAll

handleSyncAll == manager /\ forceSync

\* ------------------------------------------------------ specifications

\* The server: either route module mounted, the page idle
Init ==
    /\ SupInit
    /\ routes \in RouteModules
    /\ SyncInit
    /\ PageInit
    /\ \A e \in Elements : elems[e].currentTime = 10000

Next ==
    \/ ProcExit /\ UNCHANGED <<syncVars, pageVars>>
    \/ ProcError /\ UNCHANGED <<syncVars, pageVars>>
    \/ ProcStderr /\ UNCHANGED <<syncVars, pageVars>>
    \/ RestartTimerFire /\ UNCHANGED <<syncVars, pageVars>>
    \/ StartAllCall /\ UNCHANGED <<syncVars, pageVars>>
    \/ StopAllCall /\ UNCHANGED <<syncVars, pageVars>>
    \/ RestartCmd /\ UNCHANGED <<syncVars, pageVars>>
    \/ RestartStub /\ UNCHANGED <<syncVars, pageVars>>
    \/ RestartSettled /\ UNCHANGED <<syncVars, pageVars>>
    \/ StartAllResume /\ UNCHANGED <<syncVars, pageVars>>
    \/ Tick /\ UNCHANGED <<syncVars, pageVars>>

Spec == Init /\ [][Next]_vars

\* The page: a VideoSyncManager and its video elements, the server idle
SyncSpecInit ==
    /\ SupInit
    /\ routes = "routes.ts"
    /\ SyncInit
    /\ PageInit

SyncNext ==
    \/ addVideo /\ UNCHANGED <<supVars, pageVars>>
    \/ clearVideos /\ UNCHANGED <<supVars, pageVars>>
    \/ setMaster /\ UNCHANGED <<supVars, pageVars>>
    \/ start /\ UNCHANGED <<supVars, pageVars>>
    \/ stop /\ UNCHANGED <<supVars, pageVars>>
    \/ IntervalFire /\ UNCHANGED <<supVars, pageVars>>
    \/ ResetFire /\ UNCHANGED <<supVars, pageVars>>
    \/ playAll /\ UNCHANGED <<supVars, pageVars>>
    \/ pauseAll /\ UNCHANGED <<supVars, pageVars>>
    \/ forceSync /\ UNCHANGED <<supVars, pageVars>>
    \/ destroy /\ UNCHANGED <<supVars, pageVars>>
    \/ PlayerJump /\ UNCHANGED <<supVars, pageVars>>
    \/ PlayerBreaks /\ UNCHANGED <<supVars, pageVars>>
    \/ SyncTick /\ UNCHANGED <<supVars, pageVars>>

SyncSpec == SyncSpecInit /\ [][SyncNext]_vars

\* The page with its timers running: a timer that is due fires, and time
\* passes while none is due
TimerStep == ResetFire \/ IntervalFire \/ SyncTick

SyncFairness == WF_vars(TimerStep /\ UNCHANGED <<supVars, pageVars>>)

\* The page with every player starting at the first player's position or
\* 1.0 s ahead of it (the other positions are reached by PlayerJump)
SyncLiveInit ==
    /\ SyncSpecInit
    /\ \A e \in Elements : elems[e].currentTime \in {10000, 11000}

SyncLiveSpec == SyncLiveInit /\ [][SyncNext]_vars /\ SyncFairness

\* The dashboard page: the controller is made and destroyed by the
\* Dashboard's effect; the players keep the distances they start with, the
\* server is idle
PageNext ==
    \/ DataArrives /\ UNCHANGED supVars
    \/ RunEffects /\ UNCHANGED supVars
    \/ Unmount /\ UNCHANGED supVars
    \/ handlePlayAll /\ UNCHANGED <<supVars, pageVars>>
    \/ handlePauseAll /\ UNCHANGED <<supVars, pageVars>>
    \/ handleSyncAll /\ UNCHANGED <<supVars, pageVars>>
    \/ IntervalFire /\ UNCHANGED <<supVars, pageVars>>
    \/ ResetFire /\ UNCHANGED <<supVars, pageVars>>
    \/ SyncTick /\ UNCHANGED <<supVars, pageVars>>

PageSpec == SyncLiveInit /\ [][PageNext]_vars

\* ------------------------------------------------- supervisor: claims

LiveProcs(s) == {p \in procs : p.stream = s /\ p.state = "live"}
Last(seq) == seq[Len(seq)]
Entered(req) == \E j \in 1..Len(req.log) : req.log[j] = "startAll"
Returned(req) == req.log # <<>> /\ Last(req.log) = "returned"
Threw(req) == req.log # <<>> /\ Last(req.log) = "threw"

\* C1: in every reachable state each stream has at most one live
\* segment-writer process (spawned and not yet exited).
C1_AtMostOneLive == \A s \in StreamIds : Cardinality(LiveProcs(s)) <= 1

\* C2 as stated: after a crash exit the stream is never shown running again
\* sooner than the 3 s cool-down.
C2_NotSoonerThanCoolDown ==
    [][\A s \in StreamIds :
          (crashAge[s] >= 0 /\ crashAge[s] < RestartDelayMs)
              => ~HealthOf(streams')[s].isLive]_vars

\* C2, amended: a crash exit shows running=false at once and schedules one
\* respawn exactly RestartDelayMs later; when that timer fires the stream is
\* spawned with its own descriptor and shown running, so running=true is
\* shown again no later than cool-down + settle period after the exit; it is
\* shown sooner than the cool-down only when another spawn of the stream (a
\* startAll() in progress, or the timer of an earlier crash) comes first.
C2_CrashRestart ==
    /\ [](\A s \in StreamIds : crashAge[s] <= RestartDelayMs + SettleMs)
    /\ [][\A p \in procs, code \in ExitCodes :
            (ExitEvent(p, code) /\ code # 0 /\ code # NullCode)
                => /\ ~HealthOf(streams')[p.stream].isLive
                   /\ restartTimers' = Append(restartTimers,
                          [stream |-> p.stream, left |-> RestartDelayMs])]_vars
    /\ [][RestartTimerFire
            => LET s == Head(restartTimers).stream IN
               /\ HealthOf(streams')[s].isLive
               /\ \E p \in procs' \ procs :
                     /\ p.stream = s
                     /\ InputOffset(p.args) = delays[s]]_vars
    /\ [][\A s \in StreamIds :
            (crashAge[s] >= 0 /\ crashAge[s] < RestartDelayMs
                /\ HealthOf(streams')[s].isLive)
                => \/ \E k \in 1..Len(reqs') :
                         /\ reqs'[k].i = s
                         /\ (k <= Len(reqs) => reqs[k].i = s - 1)
                   \/ /\ Len(restartTimers') < Len(restartTimers)
                      /\ \E j \in 1..Len(restartTimers') :
                            /\ restartTimers'[j].stream = s
                            /\ restartTimers'[j].left > 0]_vars

\* C2 witness: a crashed stream is running again through its restart timer.
C2_Witness ==
    \E s \in StreamIds :
        /\ streams[s].process = 2
        /\ streams[s].isRunning
        /\ Len(reqs) = 1
        /\ restartTimers = <<>>
        /\ \E p \in LiveProcs(s) : p.pid = 2

\* C3: the exit of a process that stopAll() signalled never schedules a
\* respawn, and an exit with code 0 never schedules a respawn.
C3_NoRestartAfterStop ==
    [][\A p \in procs, code \in ExitCodes :
          (ExitEvent(p, code) /\ (p.signalled \/ code = 0))
              => restartTimers' = restartTimers]_vars

\* C4: a startAll() call issues its spawns one per stream in ascending id
\* order, each with the stream's delay as input-side offset (strictly
\* increasing, 0, 300, ..., 1500 ms); each spawn is issued when the settle
\* timer of the previous one has run out; a call that returned has issued
\* exactly NUM_STREAMS spawns, whatever the processes did meanwhile.
C4_StartAllIssues ==
    /\ [](\A k \in 1..Len(reqs) :
            Entered(reqs[k]) =>
                /\ Len(reqs[k].issued) = reqs[k].i
                /\ \A j \in 1..Len(reqs[k].issued) :
                      /\ reqs[k].issued[j].id = j
                      /\ InputOffset(reqs[k].issued[j].args)
                            = <<0, 300, 600, 900, 1200, 1500>>[j]
                      /\ j > 1 => InputOffset(reqs[k].issued[j].args)
                                    > InputOffset(reqs[k].issued[j - 1].args)
                /\ Returned(reqs[k]) => Len(reqs[k].issued) = NUM_STREAMS)
    /\ [][\A k \in 1..Len(reqs') :
            LET old == IF k <= Len(reqs) THEN reqs[k].issued ELSE <<>>
                new == reqs'[k].issued
            IN  /\ Len(new) > Len(old) =>
                    /\ Len(new) = Len(old) + 1
                    /\ reqs'[k].left = SettleMs
                    /\ (k <= Len(reqs) /\ reqs[k].pc = "loop") => reqs[k].left = 0
                    /\ \E p \in procs' \ procs :
                          /\ p.stream = new[Len(new)].id
                          /\ p.args = new[Len(new)].args
                /\ (Returned(reqs'[k]) /\ k <= Len(reqs) /\ ~Returned(reqs[k])) =>
                    /\ reqs[k].left = 0
                    /\ Len(old) = NUM_STREAMS]_vars

\* C4 witness: a startAll() call has returned although the process of
\* stream 1 that it spawned has already exited.
C4_Witness ==
    \E k \in 1..Len(reqs) :
        /\ Returned(reqs[k])
        /\ Len(reqs[k].issued) = NUM_STREAMS
        /\ LiveProcs(1) = {}
        /\ Cardinality({s \in StreamIds : LiveProcs(s) # {}}) = NUM_STREAMS - 1

\* C5: right after stopAll() getStreamHealth() reports no stream as live,
\* whatever state stopAll() was called in.
C5_StopAllMarksAllDown ==
    [][stopAll => \A s \in StreamIds : ~HealthOf(streams')[s].isLive]_vars

\* C5 witness: stopAll() has signalled a process that has not exited yet,
\* and no stream is reported live.
C5_Witness ==
    /\ \E p \in procs : p.state = "live" /\ p.signalled
    /\ \A s \in StreamIds : ~getStreamHealth[s].isLive

\* C6: the 'error' event of a failed spawn records the error text, leaves
\* the stream not running and starts nothing: no timer, no process, no call.
C6_SpawnErrorNotRetried ==
    [][\A p \in procs :
          ErrorEvent(p)
              => /\ HealthOf(streams')[p.stream].error = SpawnErrorText
                 /\ ~HealthOf(streams')[p.stream].isLive
                 /\ restartTimers' = restartTimers
                 /\ procs' \subseteq procs
                 /\ \A s \in StreamIds : streams'[s].process = streams[s].process
                 /\ reqs' = reqs]_vars

\* C6 witness: a failed spawn was reported and the stream stays down with
\* nothing pending for it.
C6_Witness ==
    \E s \in StreamIds :
        /\ streams[s].lastError = SpawnErrorText
        /\ ~streams[s].isRunning
        /\ restartTimers = <<>>
        /\ \A p \in procs : p.stream # s
        /\ \A k \in 1..Len(reqs) : reqs[k].pc = "done"

C8_RestartSequence ==
    \A k \in 1..Len(reqs) :
        reqs[k].route = "restart" =>
            /\ reqs[k].answer = "200"
                 => reqs[k].log = <<"stopAll", "settled", "startAll", "returned">>
            /\ reqs[k].answer = "500" <=> Threw(reqs[k])

\* ------------------------------------------ sync controller: claims

\* The element registered in slot i, and the master's element
ElemOf(i) == elems[videos[i].video]
MasterElem == elems[videos[MasterSlot].video]
Others == {i \in 1..Len(videos) : i # MasterSlot}

\* C9: at a poll tick, a stream whose position differs from the reference
\* position by more than the major threshold (1.5 s) is seeked to the
\* reference position: its currentTime becomes the reference's, it is
\* reported with isSynced false and with the drift measured before the seek,
\* and its playback rate is left as it was.
C9_MajorDriftSeeks ==
    [][faulty = {} /\ CanSync /\ IntervalFire =>
        \A i \in Others :
            Abs(ElemOf(i).currentTime - MasterElem.currentTime) > MAJOR_DRIFT_THRESHOLD =>
                /\ elems'[videos[i].video].currentTime = MasterElem.currentTime
                /\ elems'[videos[i].video].playbackRate = ElemOf(i).playbackRate
                /\ Len(syncStates') = Len(videos)
                /\ syncStates'[i].isSynced = FALSE
                /\ syncStates'[i].drift = ElemOf(i).currentTime - MasterElem.currentTime]_vars

\* A tick has just seeked a stream that was more than 1.5 s off.
C9_Witness ==
    /\ CanSync
    /\ syncInterval = SYNC_CHECK_INTERVAL
    /\ Len(syncStates) = Len(videos)
    /\ \E i \in Others :
        /\ Abs(syncStates[i].drift) > MAJOR_DRIFT_THRESHOLD
        /\ ~syncStates[i].isSynced
        /\ ElemOf(i).currentTime = MasterElem.currentTime
        /\ ElemOf(i).playbackRate = NormalRate

Registered == {videos[i].video : i \in 1..Len(videos)}

C13_ReferenceUntouched ==
    [][/\ masterIndex >= 0 /\ masterIndex < Len(videos)
       /\ IntervalFire \/ (UNCHANGED <<videos, masterIndex, syncInterval>> /\ forceSync)
       =>
        /\ elems'[videos[masterIndex + 1].video] = elems[videos[masterIndex + 1].video]
        /\ faulty = {} => outcome' = "notified"
        /\ outcome' = "notified" =>
              /\ Len(syncStates') = Len(videos)
              /\ syncStates'[masterIndex + 1].drift = 0
              /\ syncStates'[masterIndex + 1].isSynced = TRUE
              /\ syncStates'[masterIndex + 1].currentTime =
                    elems[videos[masterIndex + 1].video].currentTime]_vars

\* setMaster(1) made the second source the reference, and a pass reported
\* it with drift 0 while the first source was measured against it.
C13_Witness ==
    /\ masterIndex = 1
    /\ Len(videos) > 1
    /\ outcome = "notified"
    /\ Len(syncStates) = Len(videos)
    /\ syncStates[2].drift = 0
    /\ syncStates[2].isSynced
    /\ syncStates[2].currentTime = elems[videos[2].video].currentTime
    /\ syncStates[1].drift # 0

\* C14: a forceSync() whose seeks all succeed sets every non-reference
\* source to the position the reference had at the call and to rate 1.0,
\* whatever its drift was, sets no reset timer, and delivers within the same
\* call one state per source, each with drift 0, isSynced true and the
\* reference's position.
C14_ForceSyncAligns ==
    [][faulty = {} /\ CanSync /\ UNCHANGED <<videos, masterIndex, syncInterval>> /\ forceSync =>
        /\ \A i \in Others :
              /\ elems'[videos[i].video].currentTime = MasterElem.currentTime
              /\ elems'[videos[i].video].playbackRate = NormalRate
        /\ resetTimers' = resetTimers
        /\ outcome' = "notified"
        /\ Len(syncStates') = Len(videos)
        /\ \A i \in 1..Len(videos) :
              /\ syncStates'[i].drift = 0
              /\ syncStates'[i].isSynced = TRUE
              /\ syncStates'[i].currentTime = MasterElem.currentTime]_vars

\* forceSync() on a controller that was never started has just aligned two
\* or more sources.
C14_Witness ==
    /\ CanSync
    /\ Len(videos) > 1
    /\ calls = Len(videos) + 1
    /\ syncInterval = NoInterval
    /\ outcome = "notified"
    /\ Len(syncStates) = Len(videos)
    /\ \A i \in 1..Len(videos) :
          /\ syncStates[i].drift = 0
          /\ syncStates[i].isSynced
          /\ ElemOf(i).currentTime = MasterElem.currentTime
          /\ ElemOf(i).playbackRate = NormalRate

C16_PlayAllResolves ==
    [][playAll =>
        /\ outcome' # "threw"
        /\ \A e \in Registered : e \notin faulty => ~elems'[e].paused
        /\ \A e \in Elements :
              /\ elems'[e].currentTime = elems[e].currentTime
              /\ elems'[e].playbackRate = elems[e].playbackRate
              /\ e \notin Registered => elems'[e] = elems[e]]_vars

\* playAll() has run with one source rejecting: that source is still
\* paused, another is playing.
C16_Witness ==
    /\ outcome = "quiet"
    /\ \E e \in Registered : e \in faulty /\ elems[e].paused
    /\ \E e \in Registered : e \notin faulty /\ ~elems[e].paused

\* C17: when pause() or a seek fails on one source, pauseAll(), forceSync()
\* and a poll tick still apply the operation to every other registered
\* source, and nothing is thrown to the caller.
C17_FailureIsolated ==
    /\ [][pauseAll =>
            /\ outcome' # "threw"
            /\ \A e \in Registered : e \notin faulty => elems'[e].paused]_vars
    /\ [][forceSync /\ CanSync =>
            /\ outcome' # "threw"
            /\ \A i \in Others :
                  videos[i].video \notin faulty =>
                      elems'[videos[i].video].currentTime = MasterElem.currentTime]_vars
    /\ [][IntervalFire => outcome' # "threw"]_vars

\* C18: at most one poll timer is alive, and it is the one the controller
\* holds; start() on a running controller changes neither the timer nor its
\* phase, stop() on a stopped controller changes nothing, stop() and
\* destroy() leave no timer alive, and a tick fires only from the one live
\* timer.
C18_StartStopIdempotent ==
    /\ [](liveIntervals = IF syncInterval = NoInterval THEN 0 ELSE 1)
    /\ [][start /\ syncInterval # NoInterval =>
            UNCHANGED <<syncInterval, liveIntervals, elems, videos, masterIndex,
                        resetTimers, syncStates>>]_vars
    /\ [][start /\ syncInterval = NoInterval =>
            syncInterval' = SYNC_CHECK_INTERVAL /\ liveIntervals' = 1]_vars
    /\ [][stop /\ syncInterval = NoInterval =>
            UNCHANGED <<syncInterval, liveIntervals, elems, videos, masterIndex,
                        resetTimers, syncStates>>]_vars
    /\ [][stop \/ destroy => syncInterval' = NoInterval /\ liveIntervals' = 0]_vars
    /\ [][IntervalFire => liveIntervals = 1 /\ liveIntervals' = 1]_vars

\* A started controller whose timer is due, after at least one more call.
C18_Witness ==
    /\ liveIntervals = 1
    /\ syncInterval = 0
    /\ videos = <<>>
    /\ calls > 1

C20_SetMasterSelects ==
    /\ [][setMaster =>
            /\ masterIndex' = masterIndex
                  \/ (masterIndex' >= 0 /\ masterIndex' < Len(videos))
            /\ UNCHANGED <<elems, videos, syncInterval, resetTimers, syncStates,
                           liveIntervals>>]_vars
    /\ [](videos # <<>> => (masterIndex >= 0 /\ masterIndex < Len(videos)))

\* ------------------------------------------- supervisor: further claims

\* The child process is the one the stream's handle refers to
Current(p) == p.pid = streams[p.stream].process

\* The error texts the handlers can record
ErrorTexts ==
    {Substring(m, ErrorTextMax) :
        m \in {x \in Messages : Includes(x, "error") \/ Includes(x, "Error")}}
        \cup {SpawnErrorText}

\* C21: after stopAll() the process reference of every stream is null.
C21_StopAllNullsProcess ==
    [][stopAll => \A s \in StreamIds : streams'[s].process = 0]_vars

\* C23: the exit event of a process that a newer spawn of the same stream
\* has superseded leaves the stream's running flag as it is and schedules
\* no restart.
C23_SupersededEventIgnored ==
    [][\A p \in procs, code \in ExitCodes :
          (~Current(p) /\ ExitEvent(p, code))
              => /\ streams'[p.stream].isRunning = streams[p.stream].isRunning
                 /\ restartTimers' = restartTimers]_vars

\* C29: while stopAll() has returned and startAll() has not been called
\* again, no step spawns a process.
C29_NoSpawnWhileHalted ==
    [][(halted /\ halted')
          => \A s \in StreamIds : streams'[s].process = streams[s].process]_vars

\* C30: a stream's lastError is never cleared and changes only when an
\* stderr error chunk or a spawn error is reported, to that report's text;
\* getStreamHealth() has exactly one entry per stream, carrying the
\* stream's id, running flag and last error, so an error once recorded
\* stays reported whatever the running flag is.
C30_LastErrorKept ==
    /\ [](/\ DOMAIN getStreamHealth = StreamIds
          /\ \A s \in StreamIds :
                /\ getStreamHealth[s].streamId = s
                /\ getStreamHealth[s].isLive = streams[s].isRunning
                /\ getStreamHealth[s].error = streams[s].lastError
                /\ streams[s].lastError \in ErrorTexts \cup {Undefined})
    /\ [][\A s \in StreamIds :
            /\ streams[s].lastError # Undefined
                  => HealthOf(streams')[s].error # Undefined
            /\ streams'[s].lastError # streams[s].lastError
                  => /\ streams'[s].lastError \in ErrorTexts
                     /\ ProcStderr \/ ProcError]_vars

\* C30 witness: a stream that recorded an error has crashed, has been
\* respawned and is reported running with the error text still there.
C30_Witness ==
    \E s \in StreamIds :
        /\ streams[s].process >= 2
        /\ getStreamHealth[s].isLive
        /\ getStreamHealth[s].error \in ErrorTexts
        /\ \E p \in LiveProcs(s) : Current(p)

\* ---------------------------------------- sync controller: further claims

\* A step has set a reset timer for element e
TimerSetFor(e) ==
    \E k \in (Len(resetTimers) + 1)..Len(resetTimers') : resetTimers'[k].video = e

\* C22 as stated: whenever the poll timer is active, the number of
\* registered sources equals the number of stream descriptors of the
\* configuration the dashboard shows.
C22_SourcesMatchDescriptors ==
    syncInterval # NoInterval => Len(videos) = config

\* C22, amended: the poll timer is active exactly while the dashboard holds
\* a controller, and never more than one timer is alive; once the effects
\* of the latest render have run, an active controller has one source per
\* stream descriptor, in configuration order, and every stream's element is
\* in the map; sources are registered and the timer is started only by the
\* effect run, with an element registered for every stream, the first
\* stream as reference and the previous controller's timer cleared; the
\* only other change of the sources is the unmount, which drops them.
C22_MatchOnceEffectsRan ==
    /\ [](/\ manager <=> syncInterval # NoInterval
          /\ liveIntervals = (IF manager THEN 1 ELSE 0)
          /\ (manager /\ ~stale) =>
                /\ Len(videos) = config
                /\ refs = 1..config
                /\ \A i \in 1..Len(videos) : videos[i].streamId = i)
    /\ [][(videos' # videos \/ (syncInterval = NoInterval /\ syncInterval' # NoInterval)) =>
            \/ /\ Unmount
               /\ videos' = <<>>
               /\ syncInterval' = NoInterval
            \/ /\ RunEffects
               /\ Cardinality(refs') = config
               /\ Len(videos') = config
               /\ masterIndex' = 0
               /\ syncInterval' = SYNC_CHECK_INTERVAL]_vars

\* C22 witness: the configuration went from two streams to one within
\* 500 ms of a tick that nudged the second stream (its reset timer is still
\* pending); the effects have run and the new controller polls one source.
C22_Witness ==
    /\ manager
    /\ ~stale
    /\ config = 1
    /\ Len(videos) = 1
    /\ syncInterval = SYNC_CHECK_INTERVAL
    /\ \E k \in 1..Len(resetTimers) :
          \A i \in 1..Len(videos) : videos[i].video # resetTimers[k].video

C25_FreshStatesEachPass ==
    /\ [][faulty = {} /\ CanSync /\ IntervalFire =>
            /\ outcome' = "notified"
            /\ syncStates' =
                 [i \in 1..Len(videos) |->
                    LET drift == IF i = MasterSlot THEN 0
                                 ELSE ElemOf(i).currentTime - MasterElem.currentTime
                    IN  [streamId |-> videos[i].streamId,
                         currentTime |-> elems'[videos[i].video].currentTime,
                         drift |-> drift,
                         isSynced |-> Abs(drift) <= MINOR_DRIFT_THRESHOLD]]]_vars
    /\ [][(/\ UNCHANGED <<videos, masterIndex, syncInterval>>
           /\ faulty = {} /\ CanSync /\ forceSync) =>
            /\ outcome' = "notified"
            /\ syncStates' =
                 [i \in 1..Len(videos) |->
                    [streamId |-> videos[i].streamId,
                     currentTime |-> MasterElem.currentTime,
                     drift |-> 0,
                     isSynced |-> TRUE]]]_vars

\* C25 witness: a tick reported a stream out of sync and nudged it (its
\* reset timer is still pending), and the pass of a forceSync() since then
\* has replaced those states by states reporting every registered stream,
\* in registration order, at the reference position with drift 0.
C25_Witness ==
    /\ CanSync
    /\ outcome = "notified"
    /\ Len(videos) >= 2
    /\ Len(syncStates) = Len(videos)
    /\ \A i \in 1..Len(videos) :
          /\ syncStates[i].streamId = videos[i].streamId
          /\ syncStates[i].isSynced
          /\ syncStates[i].drift = 0
          /\ syncStates[i].currentTime = MasterElem.currentTime
          /\ ElemOf(i).currentTime = MasterElem.currentTime
    /\ \E k \in 1..Len(resetTimers), i \in Others :
          resetTimers[k].video = videos[i].video

\* C26: for the positions the elements have, getSyncStates() returns for
\* every stream the drift and the isSynced value a poll tick over those
\* positions reports.
C26_SnapshotAgreesWithTick ==
    CanSync =>
        \A i \in 1..Len(videos) :
            /\ getSyncStates[i].drift = PassState(elems, i).drift
            /\ getSyncStates[i].isSynced = PassState(elems, i).isSynced

\* C27: whenever a source is registered, masterIndex designates a
\* registered source.
C27_MasterIndexInRange ==
    videos # <<>> => (masterIndex >= 0 /\ masterIndex < Len(videos))

\* C28: every element's playback rate is 0.98, 1.0 or 1.02 at all times; a
\* rate other than 1.0 always has a reset timer of that element pending,
\* due within the correction window, whether or not the controller still
\* polls or still has its sources; and with the timers running a state
\* with a rate other than 1.0 is followed by one where every rate is 1.0.
C28_RateReturnsToNormal ==
    /\ [](\A e \in Elements :
            /\ elems[e].playbackRate \in {SlowRate, NormalRate, FastRate}
            /\ elems[e].playbackRate # NormalRate =>
                  \E k \in 1..Len(resetTimers) :
                      /\ resetTimers[k].video = e
                      /\ resetTimers[k].left >= 0
                      /\ resetTimers[k].left <= CorrectionWindowMs)
    /\ (\E e \in Elements : elems[e].playbackRate # NormalRate)
          ~> (\A e \in Elements : elems[e].playbackRate = NormalRate)

\* C28 witness: the controller was destroyed while a nudged element still
\* plays at a rate other than 1.0; its reset timer is pending.
C28_Witness ==
    /\ videos = <<>>
    /\ syncInterval = NoInterval
    /\ \E e \in Elements :
          /\ elems[e].playbackRate \in {SlowRate, FastRate}
          /\ \E k \in 1..Len(resetTimers) :
                resetTimers[k].video = e /\ resetTimers[k].left > 0


====
